---- MODULE Spec2Model ----
(***************************************************************************)
(* Model of sftp_backup.py: one run of main().  Strings are sequences of   *)
(* one-character strings so that basename, join, strftime and the '+'      *)
(* concatenations of the source are computed, not assumed.                 *)
(***************************************************************************)
EXTENDS Integers, Sequences, FiniteSets, TLC

VARIABLES argv, args, pc, now, local_directory, path_to_archive, commands,
          files, remote, trace, made, exit_status

vars == <<argv, args, pc, now, local_directory, path_to_archive, commands,
          files, remote, trace, made, exit_status>>

(* ---------------------------------------------------------------- bounds *)
MaxDirs == 2
MaxTicks == 2

(* ------------------------------------------------------- optional values *)
None == <<>>
Some(x) == <<x>>

(* ------------------------------------------------------- input alphabets *)
\* directories: full paths, as the help text of the positional asks for
Directories ==
  { <<"/","t","/","a">>, <<"/","u","/","a">>, <<"/","t","/","a","_">>,
    <<"/","t","/","a","/">> }

Passwords == { None, Some(<<>>), Some(<<"s","k">>) }

Executable == <<"7","z">>

\* wall-clock readings (seconds since local midnight of day 1) a run starts at
StartTimes == { 58, 86398 }

\* exit codes of the external archiver
ReturnCodes == { 0, 1, 2, 255 }

DirLists == UNION { [1..n -> Directories] : n \in 0..MaxDirs }

(* ----------------------------------------------------- string primitives *)
IsPrefix(p, s) == Len(p) <= Len(s) /\ SubSeq(s, 1, Len(p)) = p

\* os.path.basename: everything after the last '/'
basename(p) ==
  LET slashes == { i \in 1..Len(p) : p[i] = "/" }
      last == IF slashes = {} THEN 0
              ELSE CHOOSE i \in slashes : \A j \in slashes : j <= i
  IN  SubSeq(p, last + 1, Len(p))

\* os.path.join on two components
join(a, b) ==
  IF IsPrefix(<<"/">>, b) THEN b
  ELSE IF a = <<>> \/ a[Len(a)] = "/" THEN a \o b
  ELSE a \o <<"/">> \o b

\* tempfile.gettempdir()
gettempdir == <<"/","t","m","p">>

Digit(d) == <<"0","1","2","3","4","5","6","7","8","9">>[d + 1]
Pad2(n) == <<Digit((n \div 10) % 10), Digit(n % 10)>>
Pad4(n) == Pad2(n \div 100) \o Pad2(n % 100)

\* time.localtime(): the broken-down wall-clock reading
localtime(t) ==
  [tm_year |-> 2016, tm_mon |-> 1, tm_mday |-> 1 + (t \div 86400),
   tm_hour |-> (t \div 3600) % 24, tm_min |-> (t \div 60) % 60,
   tm_sec |-> t % 60]

\* time.strftime('%Y.%m.%d_%H.%M.%S') without the seconds field
strftime_no_seconds(t) ==
  LET tm == localtime(t)
  IN  Pad4(tm.tm_year) \o <<".">> \o Pad2(tm.tm_mon) \o <<".">> \o
      Pad2(tm.tm_mday) \o <<"_">> \o Pad2(tm.tm_hour) \o <<".">> \o
      Pad2(tm.tm_min)

\* time.strftime('%Y.%m.%d_%H.%M.%S')
strftime(t) ==
  LET tm == localtime(t)
  IN  Pad4(tm.tm_year) \o <<".">> \o Pad2(tm.tm_mon) \o <<".">> \o
      Pad2(tm.tm_mday) \o <<"_">> \o Pad2(tm.tm_hour) \o <<".">> \o
      Pad2(tm.tm_min) \o <<".">> \o Pad2(tm.tm_sec)

(* ------------------------------------------- compress_directory, pure part *)
archive_filename(directory_to_compress, t) ==
  basename(directory_to_compress) \o <<"_">> \o strftime(t) \o
  <<".","7","z">>

archive_path(directory_to_compress, t) ==
  join(gettempdir, archive_filename(directory_to_compress, t))

\* the command list with the password switch appended unconditionally
build_commands_always_p(exe, archive, directory_to_compress, archive_password) ==
  <<exe, <<"a">>, <<"-","t","7","z">>, archive, directory_to_compress,
    <<"-","m","h","e">>, <<"-","m","x","9">>>> \o
  <<(<<"-","p">> \o (IF archive_password # None THEN archive_password[1]
                     ELSE <<>>))>>

build_commands(exe, archive, directory_to_compress, archive_password) ==
  <<exe, <<"a">>, <<"-","t","7","z">>, archive, directory_to_compress,
    <<"-","m","h","e">>, <<"-","m","x","9">>>> \o
  (IF archive_password # None
     THEN <<(<<"-","p">> \o archive_password[1])>>
     ELSE <<>>)

\* outcomes of subprocess.check_call: the archiver could not be started, or
\* it ran and exited with returncode; created says whether it left a file
ArchiverResults ==
  { [launched |-> FALSE, returncode |-> 0, created |-> FALSE] } \cup
  { [launched |-> TRUE, returncode |-> c, created |-> b] :
      c \in ReturnCodes, b \in BOOLEAN }

PossibleResults == { r \in ArchiverResults :
                       (r.launched /\ r.returncode = 0) => r.created }

\* exit code 1 treated as fatal too
compress_raises_on_warning(r) == ~r.launched \/ r.returncode # 0

\* exit code 2 swallowed like exit code 1
compress_raises_above_2(r) ==
  ~r.launched \/ (r.returncode # 0 /\ r.returncode \notin {1, 2})

\* does compress_directory raise for this archiver outcome
compress_raises(r) ==
  ~r.launched \/ (r.returncode # 0 /\ ~(r.returncode = 1))

(* ----------------------------------------------------------------- events *)
Ev(op, idx, dir, path, rc, ok) ==
  [op |-> op, idx |-> idx, dir |-> dir, path |-> path, rc |-> rc, ok |-> ok]

(* ------------------------------------------------------------------- Init *)
NoArgs == [command_7zip |-> None, archive_password |-> None,
           sftp_hostname |-> FALSE, directories |-> <<>>]

Init ==
  /\ argv \in [command_7zip : {None, Some(Executable)},
               archive_password : Passwords,
               sftp_hostname : BOOLEAN,
               directories : DirLists]
  /\ args = NoArgs
  /\ pc = "Idle"
  /\ now \in StartTimes
  /\ local_directory = 0
  /\ path_to_archive = <<>>
  /\ commands = <<>>
  /\ files = {}
  /\ remote = {}
  /\ trace = <<>>
  /\ made = <<>>
  /\ exit_status = -1

(* ------------------------------------------------------------------ clock *)
Tick ==
  /\ pc # "Exited"
  /\ \E s \in StartTimes : s <= now /\ now < s + MaxTicks
  /\ now' = now + 1
  /\ UNCHANGED <<argv, args, pc, local_directory, path_to_archive, commands,
                 files, remote, trace, made, exit_status>>

(* --------------------------------------------------------------- get_args *)
usage_ok(a) ==
  a.command_7zip # None /\ a.sftp_hostname /\ Len(a.directories) >= 1

get_args_ok ==
  /\ pc = "Idle"
  /\ usage_ok(argv)
  /\ args' = argv
  /\ pc' = "Connecting"
  /\ UNCHANGED <<argv, now, local_directory, path_to_archive, commands,
                 files, remote, trace, made, exit_status>>

get_args_usage_error ==
  /\ pc = "Idle"
  /\ ~usage_ok(argv)
  /\ pc' = "Exited"
  /\ exit_status' = 2
  /\ trace' = Append(trace, Ev("usage_error", 0, <<>>, <<>>, 0, FALSE))
  /\ UNCHANGED <<argv, args, now, local_directory, path_to_archive, commands,
                 files, remote, made>>

(* ------------------------------------------------------- main: connecting *)
\* status of the interpreter when main() returns normally
status_after_return == 0
\* status of the interpreter when an exception leaves main()
status_after_traceback == 1

connect_ok ==
  /\ pc = "Connecting"
  /\ trace' = Append(trace, Ev("connect", 0, <<>>, <<>>, 0, TRUE))
  /\ local_directory' = 1
  /\ pc' = "Compress"
  /\ UNCHANGED <<argv, args, now, path_to_archive, commands, files, remote,
                 made, exit_status>>

\* a handler that prints and falls through into the loop
connect_caught_falls_through ==
  /\ pc = "Connecting"
  /\ \E ex \in {"AuthenticationException", "SSHException"} :
       trace' = Append(trace, Ev(ex, 0, <<>>, <<>>, 0, FALSE))
  /\ local_directory' = 1
  /\ pc' = "Compress"
  /\ UNCHANGED <<argv, args, now, path_to_archive, commands, files, remote,
                 made, exit_status>>

\* except AuthenticationException / except SSHException: print, return
connect_caught ==
  /\ pc = "Connecting"
  /\ \E ex \in {"AuthenticationException", "SSHException"} :
       trace' = Append(trace, Ev(ex, 0, <<>>, <<>>, 0, FALSE))
  /\ pc' = "Exited"
  /\ exit_status' = status_after_return
  /\ UNCHANGED <<argv, args, now, local_directory, path_to_archive, commands,
                 files, remote, made>>

\* any other exception of the constructor is not handled
connect_uncaught ==
  /\ pc = "Connecting"
  /\ trace' = Append(trace, Ev("ConnectionException", 0, <<>>, <<>>, 0, FALSE))
  /\ pc' = "Exited"
  /\ exit_status' = status_after_traceback
  /\ UNCHANGED <<argv, args, now, local_directory, path_to_archive, commands,
                 files, remote, made>>

(* ------------------------------------------------------ main: the for loop *)
\* a loop that walks the directories from the last to the first
loop_item_reversed(directories, i) == directories[Len(directories) + 1 - i]

\* for local_directory in args.directories: the item of the i-th iteration
loop_item(directories, i) == directories[i]

\* the temporary directory holds files: a path and the iteration that wrote it
written(fs, p, i) == { f \in fs : f.path # p } \cup {[path |-> p, owner |-> i]}
removed(fs, p) == { f \in fs : f.path # p }
exists(fs, p) == \E f \in fs : f.path = p

compress_directory ==
  /\ pc = "Compress"
  /\ \E r \in PossibleResults :
       LET dir == loop_item(args.directories, local_directory)
           p == archive_path(dir, now)
           cmd == build_commands(args.command_7zip[1], p, dir,
                                 args.archive_password)
       IN  /\ commands' = cmd
           /\ files' = IF r.created THEN written(files, p, local_directory)
                                   ELSE files
           /\ made' = Append(made, [dir |-> dir, time |-> now,
                                    filename |-> archive_filename(dir, now)])
           /\ trace' = Append(trace,
                 Ev("compress", local_directory, dir, p, r.returncode, r.launched))
           /\ IF compress_raises(r)
                THEN /\ pc' = "Exited"
                     /\ exit_status' = status_after_traceback
                     /\ UNCHANGED path_to_archive
                ELSE /\ pc' = "Upload"
                     /\ path_to_archive' = p
                     /\ UNCHANGED exit_status
  /\ UNCHANGED <<argv, args, now, local_directory, remote>>

\* an upload failure handled by closing the session before leaving
upload_file_closing_on_error ==
  /\ pc = "Upload"
  /\ \E ok \in { b \in BOOLEAN : b => exists(files, path_to_archive) } :
       IF ok
         THEN /\ remote' = remote \cup {basename(path_to_archive)}
              /\ trace' = Append(trace, Ev("upload", local_directory,
                   loop_item(args.directories, local_directory), path_to_archive, 0, ok))
              /\ pc' = "Remove"
              /\ UNCHANGED exit_status
         ELSE /\ trace' = Append(Append(trace, Ev("upload", local_directory,
                   loop_item(args.directories, local_directory), path_to_archive, 0, ok)),
                   Ev("close", 0, <<>>, <<>>, 0, TRUE))
              /\ pc' = "Exited"
              /\ exit_status' = status_after_traceback
              /\ UNCHANGED remote
  /\ UNCHANGED <<argv, args, now, local_directory, path_to_archive, commands,
                 files, made>>

upload_file ==
  /\ pc = "Upload"
  /\ \E ok \in { b \in BOOLEAN : b => exists(files, path_to_archive) } :
       /\ trace' = Append(trace, Ev("upload", local_directory,
            loop_item(args.directories, local_directory), path_to_archive, 0, ok))
       /\ IF ok
            THEN /\ remote' = remote \cup {basename(path_to_archive)}
                 /\ pc' = "Remove"
                 /\ UNCHANGED exit_status
            ELSE /\ pc' = "Exited"
                 /\ exit_status' = status_after_traceback
                 /\ UNCHANGED remote
  /\ UNCHANGED <<argv, args, now, local_directory, path_to_archive, commands,
                 files, made>>

\* a loop body that forgets os.remove
remove_skipped ==
  /\ pc = "Remove"
  /\ trace' = Append(trace, Ev("remove", local_directory,
       loop_item(args.directories, local_directory), path_to_archive, 0, TRUE))
  /\ local_directory' = local_directory + 1
  /\ pc' = IF local_directory < Len(args.directories)
             THEN "Compress" ELSE "Close"
  /\ UNCHANGED <<argv, args, now, path_to_archive, commands, files, remote,
                 made, exit_status>>

\* os.remove(path_to_archive), then the next iteration or the end of the loop
remove ==
  /\ pc = "Remove"
  /\ IF exists(files, path_to_archive)
       THEN /\ files' = removed(files, path_to_archive)
            /\ trace' = Append(trace, Ev("remove", local_directory,
                 loop_item(args.directories, local_directory), path_to_archive, 0, TRUE))
            /\ local_directory' = local_directory + 1
            /\ pc' = IF local_directory < Len(args.directories)
                       THEN "Compress" ELSE "Close"
            /\ UNCHANGED exit_status
       ELSE /\ trace' = Append(trace, Ev("remove", local_directory,
                 loop_item(args.directories, local_directory), path_to_archive, 0, FALSE))
            /\ pc' = "Exited"
            /\ exit_status' = status_after_traceback
            /\ UNCHANGED <<files, local_directory>>
  /\ UNCHANGED <<argv, args, now, path_to_archive, commands, remote, made>>

\* a run that ends without closing the session
close_missing ==
  /\ pc = "Close"
  /\ pc' = "Exited"
  /\ exit_status' = status_after_return
  /\ UNCHANGED <<argv, args, now, local_directory, path_to_archive, commands,
                 files, remote, trace, made>>

\* sftp_connection.close(), main() returns
close ==
  /\ pc = "Close"
  /\ trace' = Append(trace, Ev("close", 0, <<>>, <<>>, 0, TRUE))
  /\ pc' = "Exited"
  /\ exit_status' = status_after_return
  /\ UNCHANGED <<argv, args, now, local_directory, path_to_archive, commands,
                 files, remote, made>>

Next ==
  \/ Tick
  \/ get_args_ok
  \/ get_args_usage_error
  \/ connect_ok
  \/ connect_caught
  \/ connect_uncaught
  \/ compress_directory
  \/ upload_file
  \/ remove
  \/ close

Spec == Init /\ [][Next]_vars

(* --------------------------------------------------- reading the history *)
Events(op) == { k \in 1..Len(trace) : trace[k].op = op }
Count(op) == Cardinality(Events(op))
ConnectFailures ==
  { k \in 1..Len(trace) :
      trace[k].op \in {"AuthenticationException", "SSHException"} }
\* the archiver ran to an exit code that compress_directory lets pass
ExitedZeroOrOne(e) == e.ok /\ e.rc \in {0, 1}
\* the archiver ran to an exit code other than 0 and 1
ExitedFatally(e) == e.ok /\ e.rc \notin {0, 1}
N == Len(args.directories)

TypeOK ==
  /\ pc \in {"Idle", "Connecting", "Compress", "Upload", "Remove", "Close",
             "Exited"}
  /\ exit_status \in {-1, 0, 1, 2}
  /\ (pc = "Exited") <=> (exit_status # -1)

(* ================================================================ claims *)

\* C1: whenever the connect attempt fails with an authentication or an SSH
\* error, the process terminates with a non-zero exit status.
C1_ConnectFailureExitsNonZero ==
  (pc = "Exited" /\ ConnectFailures # {}) => exit_status # 0

\* C2: after an authentication failure at connect time nothing is compressed
\* and nothing is uploaded, whatever the directory list: the run is over
\* without having entered the loop.
C2_AuthFailureProcessesNothing ==
  Events("AuthenticationException") # {} =>
    /\ pc = "Exited"
    /\ Len(trace) = 1
    /\ Count("compress") = 0 /\ Count("upload") = 0
    /\ made = <<>> /\ files = {} /\ remote = {}
    /\ local_directory = 0

C2_Witness ==
  /\ pc = "Exited"
  /\ Events("AuthenticationException") # {}
  /\ N = 2

\* C3: for every directory the loop reaches, upload_file is called if and
\* only if the archiver exited with 0 or 1: after such an exit the program is
\* at the upload, after any other outcome it has stopped, and in a finished
\* run the compressions followed by an upload are exactly those that exited
\* with 0 or 1.
C3_UploadIffExitZeroOrOne ==
  /\ \A k \in Events("upload") :
       /\ k > 1 /\ trace[k-1].op = "compress"
       /\ trace[k-1].idx = trace[k].idx
       /\ ExitedZeroOrOne(trace[k-1])
  /\ \A k \in Events("compress") :
       /\ (k = Len(trace) /\ ExitedZeroOrOne(trace[k])) => pc = "Upload"
       /\ ~ExitedZeroOrOne(trace[k]) => (k = Len(trace) /\ pc = "Exited")
       /\ pc = "Exited" =>
            ((k < Len(trace) /\ trace[k+1].op = "upload")
               <=> ExitedZeroOrOne(trace[k]))

C3_Witness ==
  /\ pc = "Exited"
  /\ \E k \in Events("compress") :
       trace[k].rc = 1 /\ trace[k].ok /\ trace[k+1].op = "upload"
  /\ \E k \in Events("compress") : trace[k].rc = 2 /\ trace[k].ok

\* C4: when the archiver exits with a code other than 0 and 1 on the i-th
\* directory, nothing happens afterwards: i compressions and i-1 uploads in
\* the whole run, and the process exits non-zero.
C4_FatalArchiverAborts ==
  \A k \in Events("compress") :
    ExitedFatally(trace[k]) =>
      /\ k = Len(trace)
      /\ pc = "Exited"
      /\ exit_status # 0
      /\ Count("compress") = trace[k].idx
      /\ Count("upload") = trace[k].idx - 1
      /\ \A j \in Events("upload") : trace[j].ok
      /\ trace[k].dir = args.directories[trace[k].idx]

C4_Witness ==
  /\ N = 2
  /\ \E k \in Events("compress") :
       ExitedFatally(trace[k]) /\ trace[k].idx = 2
  /\ Count("upload") = 1

\* C5: a finished run in which the connect succeeded, every archiver run
\* exited 0 or 1 and every transfer succeeded is: one connect, then for each
\* of the N directories in input order its compression, the upload of the
\* path that compression returned and the removal of that path, then one
\* close; and the exit status is 0.
C5_FullSuccessRun ==
  ( /\ pc = "Exited"
    /\ Count("connect") = 1
    /\ \A k \in Events("compress") : ExitedZeroOrOne(trace[k])
    /\ \A k \in Events("upload") : trace[k].ok ) =>
      /\ N >= 1
      /\ Len(trace) = 3 * N + 2
      /\ trace[1].op = "connect"
      /\ \A i \in 1..N :
           /\ trace[3*i - 1].op = "compress"
           /\ trace[3*i - 1].dir = args.directories[i]
           /\ trace[3*i - 1].path = join(gettempdir, made[i].filename)
           /\ trace[3*i].op = "upload"
           /\ trace[3*i].path = trace[3*i - 1].path
           /\ trace[3*i + 1].op = "remove"
           /\ trace[3*i + 1].ok
           /\ trace[3*i + 1].path = trace[3*i - 1].path
      /\ trace[3 * N + 2].op = "close"
      /\ Count("compress") = N /\ Count("upload") = N
      /\ Count("remove") = N /\ Count("close") = 1
      /\ remote = { made[i].filename : i \in 1..N }
      /\ exit_status = 0

C5_Witness ==
  /\ pc = "Exited"
  /\ N = 2
  /\ Count("close") = 1
  /\ Count("upload") = 2
  /\ \E k \in Events("compress") : trace[k].rc = 1

\* C6: the directories are processed one after the other in input order:
\* each upload directly follows the compression of the same directory, each
\* removal directly follows the upload of the same archive, a compression
\* starts only after the previous directory's archive has been removed, and
\* never more than one archive of this run exists.
C6_StrictlySequential ==
  /\ \A k \in Events("compress") :
       /\ trace[k].dir = args.directories[trace[k].idx]
       /\ trace[k].idx = Cardinality({ j \in Events("compress") : j <= k })
       /\ IF trace[k].idx = 1
            THEN trace[k-1].op = "connect"
            ELSE /\ trace[k-1].op = "remove" /\ trace[k-1].ok
                 /\ trace[k-1].idx = trace[k].idx - 1
  /\ \A k \in Events("upload") :
       /\ trace[k-1].op = "compress"
       /\ trace[k-1].idx = trace[k].idx
       /\ trace[k-1].path = trace[k].path
  /\ \A k \in Events("remove") :
       /\ trace[k-1].op = "upload" /\ trace[k-1].ok
       /\ trace[k-1].idx = trace[k].idx
       /\ trace[k-1].path = trace[k].path
  /\ pc = "Compress" => files = {}
  /\ Cardinality(files) <= 1

C6_Witness ==
  /\ pc = "Upload"
  /\ local_directory = 2
  /\ Cardinality(files) = 1
  /\ args.directories[1] # args.directories[2]

\* C7: once upload_file has returned for an archive, that archive is gone
\* from the temporary directory when the next compression starts, when the
\* session is closed and when the run is over.
C7_UploadedArchiveRemoved ==
  pc \in {"Compress", "Close", "Exited"} =>
    \A k \in Events("upload") :
      trace[k].ok =>
        /\ [path |-> trace[k].path, owner |-> trace[k].idx] \notin files
        /\ k < Len(trace) /\ trace[k+1].op = "remove" /\ trace[k+1].ok

C7_Witness ==
  /\ pc = "Exited"
  /\ N = 2
  /\ \E k \in Events("upload") : trace[k].ok /\ trace[k].idx = 1
  /\ \E f \in files : f.owner = 2 /\ f.path = trace[3].path

\* C8: the command list holds a password switch, '-p' followed by the
\* password, exactly when an archive password was given; the format, the
\* header-encryption and the compression-level switches are always there.
PasswordSwitches(cmd) ==
  { i \in 1..Len(cmd) : IsPrefix(<<"-","p">>, cmd[i]) }

C8_PasswordFlagIffPassword ==
  commands # <<>> =>
    /\ (PasswordSwitches(commands) # {}) <=> (args.archive_password # None)
    /\ args.archive_password # None =>
         /\ PasswordSwitches(commands) = {Len(commands)}
         /\ commands[Len(commands)] = <<"-","p">> \o args.archive_password[1]
    /\ \E i \in 1..Len(commands) : commands[i] = <<"-","t","7","z">>
    /\ \E i \in 1..Len(commands) : commands[i] = <<"-","m","h","e">>
    /\ \E i \in 1..Len(commands) : commands[i] = <<"-","m","x","9">>

C8_Witness ==
  /\ commands # <<>>
  /\ args.archive_password = None
  /\ PasswordSwitches(commands) = {}

\* C9: within one run two directories with different base names never get
\* the same archive filename, whenever they are processed; two directories
\* with the same base name get the same filename only when they are
\* processed in the same second.
C9_FilenamesDistinct ==
  \A i, j \in 1..Len(made) :
    i < j =>
      /\ basename(made[i].dir) # basename(made[j].dir)
           => made[i].filename # made[j].filename
      /\ (basename(made[i].dir) = basename(made[j].dir)
            /\ made[i].filename = made[j].filename)
           => made[i].time = made[j].time

C9_Witness ==
  /\ Len(made) = 2
  /\ basename(made[1].dir) = basename(made[2].dir)
  /\ made[1].dir # made[2].dir
  /\ made[1].time # made[2].time
  /\ made[1].filename # made[2].filename

\* C10: a fatal archiver error or a failed upload is the last thing the
\* program does: no later compression or upload, no removal of the current
\* archive, no close; close is called once in the run that completes every
\* directory and never in any other run.
Fatal(e) ==
  \/ e.op = "compress" /\ ~ExitedZeroOrOne(e)
  \/ e.op = "upload" /\ ~e.ok

C10_FatalErrorIsTerminal ==
  /\ \A k \in 1..Len(trace) :
       Fatal(trace[k]) =>
         /\ k = Len(trace)
         /\ pc = "Exited"
         /\ \A j \in Events("remove") : trace[j].idx # trace[k].idx
         /\ Count("close") = 0
  /\ Count("close") <= 1
  /\ Count("close") = 1 => (N >= 1 /\ Count("remove") = N)
  /\ pc = "Exited" =>
       (Count("close") = 1 <=>
          (N >= 1 /\ Count("remove") = N
             /\ \A j \in Events("remove") : trace[j].ok))

C10_Witness ==
  /\ pc = "Exited"
  /\ N = 2
  /\ trace[Len(trace)].op = "upload"
  /\ ~trace[Len(trace)].ok
  /\ trace[Len(trace)].idx = 2
  /\ exists(files, path_to_archive)
====
